---- MODULE Spec2Model ----
(***************************************************************************)
(* Semantic embedding index of memory-journal-mcp.                         *)
(*                                                                         *)
(* The model follows VectorSearchManager (src/src/vector_search.py and its *)
(* copy in src/src/server.py) and the create_entry / update_entry tool     *)
(* handlers of src/src/server.py.  One asyncio event loop runs the tasks:  *)
(* an action is one loop turn of one task, i.e. the code between two       *)
(* suspension points (await of a lock or of run_in_executor), or one job   *)
(* executed by a worker thread of the pool.                                *)
(***************************************************************************)
EXTENDS Integers, Sequences, FiniteSets, TLC

\* ------------------------------------------------------------------ bounds
NumTasks == 2       \* concurrent tasks on the event loop
MaxOps == 2         \* operations started in one run
MaxFaults == 1      \* exceptions and cancellations injected in one run

Tasks == 1..NumTasks
\* Entry ids (rows of memory_journal) the operations are called with.
EntryIds == {1, 2}

\* ------------------------------------------------------- program constants
NoTask == 0                    \* asyncio.Lock() not held
VECTOR_SEARCH_MODEL == "all-MiniLM-L6-v2"
OTHER_MODEL == "other-model"   \* a row written under a different model name
Unit == 5                      \* fixed-point length of an L2-normalised vector

\* The two copies of VectorSearchManager in the repository.
Copies == {"vector_search.py", "server.py"}

\* Texts handed to the embedding model, and the raw vectors it returns.
Texts == {1, 2}
\* Query texts handed to semantic_search.
Queries == {1, 3}
encode(text) ==
    CASE text = 1 -> <<6, 8>>
      [] text = 2 -> <<10, 0>>
      [] OTHER -> <<0, 10>>

\* Arguments of semantic_search: limit, and similarity_threshold on the scale
\* of the scores (Unit * Unit stands for 1.0).
Limits == {1, 2}
Thresholds == {0, 20}
\* The arguments the semantic_search tool is called with: one result wanted,
\* and only a vector equal to the query's is similar enough.
ToolLimits == {1}
ToolThresholds == {Unit * Unit}
\* The arguments of the queries that run next to ingestion: two results
\* wanted, of any score from 0 up.
ServiceLimits == {2}
ServiceThresholds == {0}

VARIABLES
    copy,                    \* which copy of the class is running
    VECTOR_SEARCH_AVAILABLE, \* module flag set at import time
    memory_journal,          \* committed rows of table memory_journal: id -> content
    embeddings,              \* rows of table memory_journal_embeddings
    model,                   \* self.model is not None
    faiss_index,             \* self.faiss_index: [created, vectors]
    entry_id_map,            \* self.entry_id_map: position -> entry id
    initialized,             \* self.initialized
    lock_holder,             \* self._initialization_lock: owner, or NoTask
    lock_waiters,            \* self._initialization_lock: FIFO of waiting tasks
    pc,                      \* where each task is suspended
    op,                      \* the operation each task is running / ran last
    entry_id,                \* its entry_id argument / the row it created
    content,                 \* its text argument
    stored,                  \* outcome of its executor job: "none", "ok", "fail"
    result,                  \* what its last operation returned
    ops,                     \* operations started so far
    hist,                    \* per call history (observation only)
    bootstrap_runs,          \* bootstrap bodies entered (observation only)
    faults,                  \* exceptions and cancellations injected so far
    limit,                   \* semantic_search: its limit argument
    similarity_threshold,    \* semantic_search: its similarity_threshold argument
    results,                 \* semantic_search: the list it returned
    tags,                    \* committed rows of table tags
    tag_names,               \* auto_create_tags: its tag_names argument
    tag_ids,                 \* auto_create_tags: the list it returned
    pool,                    \* jobs of cancelled calls a worker thread is still running
    deleted_at,              \* ids of the memory_journal rows whose deleted_at is set
    listed                   \* semantic_search tool: the entry ids its answer lists

vars == <<copy, VECTOR_SEARCH_AVAILABLE, memory_journal, embeddings, model,
          faiss_index, entry_id_map, initialized, lock_holder, lock_waiters,
          pc, op, entry_id, content, stored, result, ops, hist,
          bootstrap_runs, faults, limit, similarity_threshold, results,
          tags, tag_names, tag_ids, pool, deleted_at, listed>>

config == <<copy, VECTOR_SEARCH_AVAILABLE>>
index_vars == <<model, faiss_index, entry_id_map, initialized>>
lock_vars == <<lock_holder, lock_waiters>>
db_vars == <<memory_journal, embeddings>>
search_vars == <<limit, similarity_threshold, results>>
tag_vars == <<tags, tag_names, tag_ids>>
tool_vars == <<deleted_at, listed>>

\* ---------------------------------------------------------------- vectors
Dot(u, v) == u[1] * v[1] + u[2] * v[2]

ISqrt(n) == CHOOSE r \in 0..n : r * r <= n /\ (r + 1) * (r + 1) > n

\* faiss.normalize_L2: scale to length Unit (a zero vector is left alone).
normalize_L2(v) ==
    LET len == ISqrt(Dot(v, v))
    IN  IF len = 0 THEN v ELSE <<(v[1] * Unit) \div len, (v[2] * Unit) \div len>>

\* ---------------------------------------------------------- durable store
\* pickle.dumps(embedding): the blob stored in column embedding_vector, here
\* the vector behind its length.
pickle_dumps(v) == <<Len(v)>> \o v

\* pickle.loads raises on a blob that is not a complete pickle.
loads_raises(blob) == blob = <<>> \/ blob[1] # Len(blob) - 1

pickle_loads(blob) == Tail(blob)

\* A blob cut short on disk.
CorruptBlob == <<2, 6>>

\* A row of memory_journal_embeddings; rowid is the place SQLite gave it.
EmbeddingRow(id, m, blob) ==
    [rowid |-> 0, entry_id |-> id, embedding_model |-> m, embedding_vector |-> blob]

next_rowid(table) ==
    IF table = {} THEN 1
    ELSE (CHOOSE r \in table : \A s \in table : s.rowid <= r.rowid).rowid + 1

\* The uniqueness constraint of memory_journal_embeddings (schema.sql): two
\* rows conflict when they agree on (entry_id, embedding_model).
conflicts(r, row) ==
    r.entry_id = row.entry_id /\ r.embedding_model = row.embedding_model

\* Mutant: a plain INSERT into a table without the conflict resolution.
insert_or_replace_Insert(table, row) ==
    table \cup {[row EXCEPT !.rowid = next_rowid(table)]}

\* INSERT OR REPLACE INTO memory_journal_embeddings: the conflicting row is
\* deleted and the new one inserted at a fresh rowid.
insert_or_replace(table, row) ==
    {r \in table : ~conflicts(r, row)} \cup {[row EXCEPT !.rowid = next_rowid(table)]}

\* The table after the rows of a sequence were written one after the other.
RECURSIVE written(_)
written(rows) ==
    IF rows = <<>> THEN {}
    ELSE insert_or_replace(written(SubSeq(rows, 1, Len(rows) - 1)), rows[Len(rows)])

\* Mutant: the query has no ORDER BY clause; SQLite scans in rowid order.
RECURSIVE OrderByEntryId_Rowid(_)
OrderByEntryId_Rowid(rows) ==
    IF rows = {} THEN <<>>
    ELSE LET first == CHOOSE r \in rows : \A s \in rows : r.rowid <= s.rowid
         IN  <<first>> \o OrderByEntryId_Rowid(rows \ {first})

\* ... ORDER BY entry_id (rows of one entry_id in rowid order)
RECURSIVE OrderByEntryId(_)
OrderByEntryId(rows) ==
    IF rows = {} THEN <<>>
    ELSE LET first == CHOOSE r \in rows : \A s \in rows :
                          \/ r.entry_id < s.entry_id
                          \/ r.entry_id = s.entry_id /\ r.rowid <= s.rowid
         IN  <<first>> \o OrderByEntryId(rows \ {first})

\* Mutant: the query has no WHERE clause.
where_model_Any(r, m) == TRUE

\* ... WHERE embedding_model = ?
where_model(r, m) == r.embedding_model = m

\* SELECT entry_id, embedding_vector FROM memory_journal_embeddings
\* WHERE embedding_model = ? ORDER BY entry_id
select_embeddings(table, m) ==
    OrderByEntryId({r \in table : where_model(r, m)})

\* Entry ids with a stored embedding of the active model.
StoredIds == {r.entry_id : r \in {x \in embeddings : x.embedding_model = VECTOR_SEARCH_MODEL}}

\* ------------------------------------------------------------- FAISS index
NoIndex == [created |-> FALSE, vectors |-> <<>>]
IndexFlatIP == [created |-> TRUE, vectors |-> <<>>]
ntotal(index) == Len(index.vectors)
index_add(index, vs) == [index EXCEPT !.vectors = @ \o vs]

\* dict assignment self.entry_id_map[key] = value
dict_set(d, key, value) ==
    [k \in (DOMAIN d) \cup {key} |-> IF k = key THEN value ELSE d[k]]

EmptyDict == [k \in {} |-> 0]


\* ------------------------------------------------------------ per call history
NoHist == [waited |-> FALSE,        \* the call was suspended on the lock
           ran_bootstrap |-> FALSE, \* the call entered the bootstrap body
           boot_failed |-> FALSE,   \* the bootstrap it ran raised
           gen_failed |-> FALSE,    \* model.encode raised
           store_failed |-> FALSE,  \* store_embedding raised
           append_failed |-> FALSE, \* faiss_index.add raised
           upserted |-> FALSE,      \* store_embedding committed its row
           position |-> -1,         \* position the call appended at
           committed |-> FALSE,     \* the handler's memory_journal write committed
           replaced |-> FALSE,      \* store_embedding found a row of its key
           not_ready |-> FALSE,     \* the call found the manager not initialized
           dispatched |-> FALSE,    \* the call handed model.encode to the pool
           loop_io |-> FALSE,       \* the call ran the bulk load in a turn of the loop
           touched |-> FALSE,       \* a step of the call changed the vectors or the map
           gone |-> {}]             \* the entries soft deleted when the call was made

\* -------------------------------------------------------------------- Init
\* Databases left behind by earlier runs of the server.
Stored(id, m, text) == EmbeddingRow(id, m, pickle_dumps(encode(text)))

InitDatabases ==
    { <<EmptyDict, {}>>,
      <<[i \in {1} |-> 1], written(<<Stored(1, VECTOR_SEARCH_MODEL, 1)>>)>>,
      <<[i \in {1, 2} |-> i], written(<<Stored(2, VECTOR_SEARCH_MODEL, 2),
                                        Stored(1, OTHER_MODEL, 1)>>)>> }

\* A process that has just constructed its manager over database d and tags
\* table tagrows.
Start(d, tagrows) ==
    /\ copy \in Copies
    /\ VECTOR_SEARCH_AVAILABLE \in BOOLEAN
    /\ memory_journal = d[1] /\ embeddings = d[2]
    /\ tags = tagrows
    /\ limit = [t \in Tasks |-> 0]
    /\ similarity_threshold = [t \in Tasks |-> 0]
    /\ results = [t \in Tasks |-> <<>>]
    /\ tag_names = [t \in Tasks |-> <<>>]
    /\ tag_ids = [t \in Tasks |-> <<>>]
    /\ pool = {}
    /\ deleted_at = {}
    /\ listed = [t \in Tasks |-> <<>>]
    /\ model = FALSE
    /\ faiss_index = NoIndex
    /\ entry_id_map = EmptyDict
    /\ initialized = FALSE
    /\ lock_holder = NoTask
    /\ lock_waiters = <<>>
    /\ pc = [t \in Tasks |-> "idle"]
    /\ op = [t \in Tasks |-> "none"]
    /\ entry_id = [t \in Tasks |-> 0]
    /\ content = [t \in Tasks |-> 0]
    /\ stored = [t \in Tasks |-> "none"]
    /\ result = [t \in Tasks |-> "none"]
    /\ ops = 0
    /\ hist = [t \in Tasks |-> NoHist]
    /\ bootstrap_runs = 0
    /\ faults = 0

Init == \E d \in InitDatabases : Start(d, {})

\* Databases with more to load: rows written out of entry_id order, a row of
\* another model, several rows of one vector, and a row that does not unpickle.
LoadDatabases ==
    { <<EmptyDict, {}>>,
      <<[i \in {1, 2, 3} |-> i], written(<<Stored(2, VECTOR_SEARCH_MODEL, 2),
                                           Stored(3, OTHER_MODEL, 1),
                                           Stored(3, VECTOR_SEARCH_MODEL, 3),
                                           Stored(1, VECTOR_SEARCH_MODEL, 1)>>)>>,
      <<[i \in {1, 2, 3} |-> i], written(<<Stored(3, VECTOR_SEARCH_MODEL, 1),
                                           Stored(1, VECTOR_SEARCH_MODEL, 2),
                                           Stored(2, VECTOR_SEARCH_MODEL, 2)>>)>>,
      <<[i \in {1, 2} |-> i], written(<<Stored(1, VECTOR_SEARCH_MODEL, 1),
                                        EmbeddingRow(2, VECTOR_SEARCH_MODEL, CorruptBlob)>>)>> }

InitLoad == \E d \in LoadDatabases : Start(d, {})

\* ------------------------------------------------- _ensure_initialized
\* What the caller of _ensure_initialized does once the call is over, up to
\* the caller's next suspension point.  kind is the running operation,
\* outcome is "returned" or "raised", inited the value of self.initialized.
\*   "ensure": a bare call; its outcome is the result.
\*   "add":    add_entry_embedding: the call is outside the try block, so
\*             an exception propagates; "if not self.initialized: return
\*             False"; otherwise generate_embedding is awaited, whose own
\*             _ensure_initialized returns at once, and encode is dispatched.
\*   "search": semantic_search: the call is outside the try block; "if not
\*             self.initialized or self.faiss_index.ntotal == 0: return []";
\*             otherwise generate_embedding is awaited and encode dispatched.
\*   "tool":   the semantic_search tool of server.py (1985-1996): "if not
\*             vector_search.initialized" answers with an error text, else
\*             semantic_search is awaited, which goes as above, and an empty
\*             list is answered with "No semantically similar entries found".
\* index is self.faiss_index when the call is over.
SearchKinds == {"search", "tool"}

\* Mutant: the empty index is not answered at once.
PcAfterEnsure_Unchecked(kind, outcome, inited, index) ==
    CASE kind = "add" /\ outcome = "returned" /\ inited -> "a_gen"
      [] kind \in SearchKinds /\ outcome = "returned" /\ inited -> "s_gen"
      [] OTHER -> "idle"

\* Mutant: the caller goes on without looking at self.initialized.
PcAfterEnsure_Ungated(kind, outcome, inited, index) ==
    CASE kind = "add" /\ outcome = "returned" -> "a_gen"
      [] kind \in SearchKinds /\ outcome = "returned" /\ index.vectors # <<>> -> "s_gen"
      [] OTHER -> "idle"

PcAfterEnsure(kind, outcome, inited, index) ==
    CASE kind = "add" /\ outcome = "returned" /\ inited -> "a_gen"
      [] kind \in SearchKinds /\ outcome = "returned" /\ inited /\ index.vectors # <<>> -> "s_gen"
      [] OTHER -> "idle"

ResultAfterEnsure(kind, outcome, inited, index) ==
    CASE kind = "ensure" -> outcome
      [] kind \in {"add", "search", "tool"} /\ outcome = "raised" -> "raised"
      [] kind = "add" /\ outcome = "returned" /\ ~inited -> "false"
      [] kind = "search" /\ outcome = "returned" /\ (~inited \/ index.vectors = <<>>) -> "list"
      [] kind = "tool" /\ outcome = "returned" /\ ~inited -> "init_failed"
      [] kind = "tool" /\ outcome = "returned" /\ index.vectors = <<>> -> "no_results"
      [] OTHER -> "none"

\* What the call has seen by then (observation only).
HistAfterEnsure(h, kind, outcome, inited, index) ==
    [h EXCEPT !.not_ready = (outcome = "raised" \/ ~inited),
              !.dispatched = (PcAfterEnsure(kind, outcome, inited, index) \in {"a_gen", "s_gen"})]

\* What the except clause of _ensure_initialized does with the exception.
ExceptOutcome == IF copy = "vector_search.py" THEN "raised" ELSE "returned"

\* Mutant: the lock is taken without looking at its state.
LockFree_Unguarded == TRUE

\* asyncio.Lock.acquire() succeeds at once iff unlocked and nobody waits.
LockFree == lock_holder = NoTask /\ lock_waiters = <<>>

\* Mutant: no second look at self.initialized once the lock is held.
Recheck_Skipped == FALSE

\* Line 96: "Double-check after acquiring lock".
Recheck == initialized

\* Mutant: an exception leaves the async with block without releasing.
aexit_HeldOnError(t, exc) == IF exc THEN t ELSE NoTask

\* Line 94: "async with self._initialization_lock": the owner of the lock
\* once task t has left the block, by a return or by an exception.
aexit(t, exc) == NoTask

\* Lines 95-122, entered with the lock acquired by t.
Locked(t, kind, h) ==
    IF Recheck \/ ~VECTOR_SEARCH_AVAILABLE
    THEN /\ lock_holder' = aexit(t, FALSE)
         /\ pc' = [pc EXCEPT ![t] = PcAfterEnsure(kind, "returned", initialized, faiss_index)]
         /\ result' = [result EXCEPT ![t] =
                           ResultAfterEnsure(kind, "returned", initialized, faiss_index)]
         /\ hist' = [hist EXCEPT ![t] =
                         HistAfterEnsure(h, kind, "returned", initialized, faiss_index)]
         /\ UNCHANGED bootstrap_runs
    ELSE /\ lock_holder' = t
         /\ pc' = [pc EXCEPT ![t] = "e_load"]
         /\ result' = [result EXCEPT ![t] = "none"]
         /\ hist' = [hist EXCEPT ![t] = [h EXCEPT !.ran_bootstrap = TRUE]]
         /\ bootstrap_runs' = bootstrap_runs + 1

\* Lines 87-122, from the call to the first suspension point.
ensure_initialized(t, kind, h) ==
    IF initialized
    THEN /\ pc' = [pc EXCEPT ![t] = PcAfterEnsure(kind, "returned", TRUE, faiss_index)]
         /\ result' = [result EXCEPT ![t] = ResultAfterEnsure(kind, "returned", TRUE, faiss_index)]
         /\ hist' = [hist EXCEPT ![t] = HistAfterEnsure(h, kind, "returned", TRUE, faiss_index)]
         /\ UNCHANGED <<lock_vars, bootstrap_runs>>
    ELSE IF LockFree
         THEN Locked(t, kind, h) /\ UNCHANGED lock_waiters
         ELSE /\ lock_waiters' = Append(lock_waiters, t)
              /\ pc' = [pc EXCEPT ![t] = "e_wait"]
              /\ result' = [result EXCEPT ![t] = "none"]
              /\ hist' = [hist EXCEPT ![t] = [h EXCEPT !.waited = TRUE]]
              /\ UNCHANGED <<lock_holder, bootstrap_runs>>

\* A task starts an operation when it is idle.  Tasks are interchangeable, so
\* they are numbered in the order in which they first run.
CanStart(t) ==
    /\ pc[t] = "idle"
    /\ ops < MaxOps
    /\ \A u \in Tasks : u < t => op[u] # "none"

\* server.py 615: vector_search = VectorSearchManager(DB_PATH) if
\* VECTOR_SEARCH_AVAILABLE else None; vector_search.py has no such condition.
ManagerExists == copy = "server.py" => VECTOR_SEARCH_AVAILABLE

\* A task calls _ensure_initialized() (as the semantic_search tool does first).
EnsureReady(t) ==
    /\ CanStart(t)
    /\ ManagerExists
    /\ op' = [op EXCEPT ![t] = "ensure"]
    /\ ops' = ops + 1
    /\ entry_id' = [entry_id EXCEPT ![t] = 0]
    /\ content' = [content EXCEPT ![t] = 0]
    /\ stored' = [stored EXCEPT ![t] = "none"]
    /\ ensure_initialized(t, "ensure", NoHist)
    /\ UNCHANGED <<config, pool, tool_vars, search_vars, tag_vars,
                   db_vars, index_vars, faults>>

\* The lock wakes its first waiter once released; the waiter goes on at line 95.
LockAcquired(t) ==
    /\ pc[t] = "e_wait"
    /\ lock_holder = NoTask
    /\ lock_waiters # <<>> /\ Head(lock_waiters) = t
    /\ lock_waiters' = Tail(lock_waiters)
    /\ Locked(t, op[t], hist[t])
    /\ UNCHANGED <<config, pool, tool_vars, search_vars, tag_vars,
                   db_vars, index_vars, op, entry_id, content, stored,
                   ops, faults>>

\* _load_existing_embeddings: the index after self.faiss_index.add(vectors).
loaded_index(table) ==
    LET rows == select_embeddings(table, VECTOR_SEARCH_MODEL)
    IN  index_add(IndexFlatIP,
                  [i \in 1..Len(rows) |-> normalize_L2(pickle_loads(rows[i].embedding_vector))])

\* _load_existing_embeddings: pickle.loads of some selected row raises, which
\* happens in the fetch loop, before the index is touched.
load_raises(table) ==
    LET rows == select_embeddings(table, VECTOR_SEARCH_MODEL)
    IN  \E i \in 1..Len(rows) : loads_raises(rows[i].embedding_vector)

\* _load_existing_embeddings: self.entry_id_map[i] = entry_id for each row.
loaded_map(d, table) ==
    LET rows == select_embeddings(table, VECTOR_SEARCH_MODEL)
    IN  [p \in (DOMAIN d) \cup (0..(Len(rows) - 1)) |->
            IF p < Len(rows) THEN rows[p + 1].entry_id ELSE d[p]]

\* The exception that ends the bootstrap: the injected one, or the one of
\* _load_existing_embeddings over a row that does not unpickle.
raised(fault) == IF fault = "none" /\ load_raises(embeddings) THEN "load" ELSE fault

\* Lines 119-143: the model has been loaded by the worker (or loading raised),
\* the index is created, the stored embeddings are loaded, the lock released.
\* Line 132 calls _load_existing_embeddings as a plain function: its
\* sqlite3.connect, SELECT and pickle.loads run in this turn of the loop.
\* fault: an exception injected from outside: "none", "model"
\* (SentenceTransformer raised) or "load" (_load_existing_embeddings raised
\* before touching the index, e.g. sqlite3.connect); a row that does not
\* unpickle makes _load_existing_embeddings raise by itself.
Bootstrap(t, fault) ==
    /\ pc[t] = "e_load"
    /\ fault # "none" => faults < MaxFaults
    /\ faults' = IF fault = "none" THEN faults ELSE faults + 1
    /\ model' = (model \/ raised(fault) # "model")
    /\ faiss_index' = CASE raised(fault) = "model" -> faiss_index
                        [] raised(fault) = "load" -> IndexFlatIP
                        [] OTHER -> loaded_index(embeddings)
    /\ entry_id_map' = IF raised(fault) = "none" THEN loaded_map(entry_id_map, embeddings)
                       ELSE entry_id_map
    /\ initialized' = (raised(fault) = "none")
    /\ lock_holder' = aexit(t, raised(fault) # "none")
    /\ LET ok == raised(fault) = "none"
           outcome == IF ok THEN "returned" ELSE ExceptOutcome
       IN  /\ pc' = [pc EXCEPT ![t] = PcAfterEnsure(op[t], outcome, ok, faiss_index')]
           /\ result' = [result EXCEPT ![t] =
                             ResultAfterEnsure(op[t], outcome, ok, faiss_index')]
           /\ hist' = [hist EXCEPT ![t] =
                           HistAfterEnsure([hist[t] EXCEPT !.boot_failed = ~ok,
                                                           !.loop_io = ok,
                                                           !.touched =
                                                               \/ faiss_index'.vectors # <<>>
                                                               \/ entry_id_map' # entry_id_map],
                                           op[t], outcome, ok, faiss_index')]
    /\ UNCHANGED <<config, pool, tool_vars, search_vars, tag_vars,
                   db_vars, lock_waiters, op, entry_id, content, stored,
                   ops, bootstrap_runs>>

\* ------------------------------------------------- add_entry_embedding
\* What the caller of add_entry_embedding makes of its return value: a direct
\* caller gets it; create_entry (server.py 1783-1796) and update_entry
\* (2138-2148) discard it, swallow an exception, and answer with success.
\* Mutant: the handler reports an embedding that was not stored as an error.
tool_response_Strict(kind, value) ==
    IF kind = "add" THEN value ELSE IF value = "true" THEN "success" ELSE "error"

tool_response(kind, value) == IF kind = "add" THEN value ELSE "success"

\* Mutant: the except clause reports success.
except_return_True == "true"

\* Lines 259-261: except Exception: ... return False
except_return == "false"

Return(t, value) ==
    /\ pc' = [pc EXCEPT ![t] = "idle"]
    /\ result' = [result EXCEPT ![t] = tool_response(op[t], value)]
    /\ content' = [content EXCEPT ![t] = 0]

\* Lines 214-232: add_entry_embedding called on the manager.
AddEntryEmbedding(t, id, text) ==
    /\ CanStart(t)
    /\ ManagerExists
    /\ op' = [op EXCEPT ![t] = "add"]
    /\ ops' = ops + 1
    /\ entry_id' = [entry_id EXCEPT ![t] = id]
    /\ content' = [content EXCEPT ![t] = text]
    /\ stored' = [stored EXCEPT ![t] = "none"]
    /\ ensure_initialized(t, "add", NoHist)
    /\ UNCHANGED <<config, pool, tool_vars, search_vars, tag_vars,
                   db_vars, index_vars, faults>>

\* Lines 200-248: model.encode has run on a worker.  On success the vector is
\* normalised and store_embedding is dispatched to the pool; an exception is
\* caught at line 259 and False returned.
Encoded(t, ok) ==
    /\ pc[t] = "a_gen"
    /\ ~ok => faults < MaxFaults
    /\ faults' = IF ok THEN faults ELSE faults + 1
    /\ IF ok
       THEN /\ pc' = [pc EXCEPT ![t] = "a_store"]
            /\ UNCHANGED <<result, hist, content>>
       ELSE /\ Return(t, except_return)
            /\ hist' = [hist EXCEPT ![t].gen_failed = TRUE]
    /\ UNCHANGED <<config, pool, tool_vars, search_vars, tag_vars,
                   db_vars, index_vars, lock_vars, op, entry_id,
                   stored, ops, bootstrap_runs>>

\* Mutant: the job of the worker thread appends to the index as well.
StoreEmbedding_Appends(t, ok) ==
    /\ pc[t] = "a_store"
    /\ ~ok => faults < MaxFaults
    /\ faults' = IF ok THEN faults ELSE faults + 1
    /\ pc' = [pc EXCEPT ![t] = "a_stored"]
    /\ stored' = [stored EXCEPT ![t] = IF ok THEN "ok" ELSE "fail"]
    /\ embeddings' = IF ok
                     THEN insert_or_replace(embeddings,
                              EmbeddingRow(entry_id[t], VECTOR_SEARCH_MODEL,
                                           pickle_dumps(encode(content[t]))))
                     ELSE embeddings
    /\ faiss_index' = index_add(faiss_index, <<normalize_L2(encode(content[t]))>>)
    /\ hist' = [hist EXCEPT ![t].upserted = ok, ![t].store_failed = ~ok,
                            ![t].replaced = (ok /\ entry_id[t] \in StoredIds)]
    /\ UNCHANGED <<config, pool, tool_vars, search_vars, tag_vars,
                   memory_journal, model, entry_id_map, initialized, lock_vars, op, entry_id,
                   content, result, ops, bootstrap_runs>>

\* Lines 239-245: store_embedding runs on a worker thread.
StoreEmbedding(t, ok) ==
    /\ pc[t] = "a_store"
    /\ ~ok => faults < MaxFaults
    /\ faults' = IF ok THEN faults ELSE faults + 1
    /\ pc' = [pc EXCEPT ![t] = "a_stored"]
    /\ stored' = [stored EXCEPT ![t] = IF ok THEN "ok" ELSE "fail"]
    /\ embeddings' = IF ok
                     THEN insert_or_replace(embeddings,
                              EmbeddingRow(entry_id[t], VECTOR_SEARCH_MODEL,
                                           pickle_dumps(encode(content[t]))))
                     ELSE embeddings
    /\ hist' = [hist EXCEPT ![t].upserted = ok, ![t].store_failed = ~ok,
                            ![t].replaced = (ok /\ entry_id[t] \in StoredIds)]
    /\ UNCHANGED <<config, pool, tool_vars, search_vars, tag_vars,
                   memory_journal, index_vars, lock_vars, op, entry_id,
                   content, result, ops, bootstrap_runs>>

\* Mutant: the position is taken to be the size after the add.
new_index_SizeAfter(index) == ntotal(index)

\* Mutant: every vector is mapped at position 0.
new_index_Zero(index) == 0

\* Line 254: new_index = self.faiss_index.ntotal - 1 (after the add).
new_index(index) == ntotal(index) - 1

\* Mutant: an append that raises has added its vector all the same.
IndexAdd_HalfDone(t, ok) ==
    /\ pc[t] = "a_stored"
    /\ stored[t] = "fail" => ok
    /\ ~ok => faults < MaxFaults
    /\ faults' = IF ok THEN faults ELSE faults + 1
    /\ stored' = [stored EXCEPT ![t] = "none"]
    /\ IF stored[t] = "ok" /\ ok
       THEN LET added == index_add(faiss_index, <<normalize_L2(encode(content[t]))>>)
            IN  /\ faiss_index' = added
                /\ entry_id_map' = dict_set(entry_id_map, new_index(added), entry_id[t])
                /\ hist' = [hist EXCEPT ![t].position = new_index(added), ![t].touched = TRUE]
                /\ Return(t, "true")
       ELSE /\ faiss_index' = IF stored[t] = "ok"
                             THEN index_add(faiss_index, <<normalize_L2(encode(content[t]))>>)
                             ELSE faiss_index
            /\ UNCHANGED entry_id_map
            /\ hist' = [hist EXCEPT ![t].append_failed = (stored[t] = "ok")]
            /\ Return(t, except_return)
    /\ UNCHANGED <<config, pool, tool_vars, search_vars, tag_vars,
                   db_vars, model, initialized, lock_vars, op, entry_id,
                   ops, bootstrap_runs>>

\* Lines 248-261: back on the event loop after store_embedding.  An exception
\* of the job, or of faiss_index.add, is caught and False returned; otherwise
\* the normalised vector is appended and its position mapped to the entry id.
IndexAdd(t, ok) ==
    /\ pc[t] = "a_stored"
    /\ stored[t] = "fail" => ok
    /\ ~ok => faults < MaxFaults
    /\ faults' = IF ok THEN faults ELSE faults + 1
    /\ stored' = [stored EXCEPT ![t] = "none"]
    /\ IF stored[t] = "ok" /\ ok
       THEN LET added == index_add(faiss_index, <<normalize_L2(encode(content[t]))>>)
            IN  /\ faiss_index' = added
                /\ entry_id_map' = dict_set(entry_id_map, new_index(added), entry_id[t])
                /\ hist' = [hist EXCEPT ![t].position = new_index(added), ![t].touched = TRUE]
                /\ Return(t, "true")
       ELSE /\ UNCHANGED <<faiss_index, entry_id_map>>
            /\ hist' = [hist EXCEPT ![t].append_failed = (stored[t] = "ok")]
            /\ Return(t, except_return)
    /\ UNCHANGED <<config, pool, tool_vars, search_vars, tag_vars,
                   db_vars, model, initialized, lock_vars, op, entry_id,
                   ops, bootstrap_runs>>

\* ------------------------------------------------ create_entry / update_entry
\* server.py 1743-1780 and 2070-2132: the tool handler dispatches its
\* memory_journal write to the pool.  text = 0 is update_entry without content.
CreateEntry(t, text) ==
    /\ copy = "server.py"
    /\ CanStart(t)
    /\ op' = [op EXCEPT ![t] = "create"]
    /\ ops' = ops + 1
    /\ entry_id' = [entry_id EXCEPT ![t] = 0]
    /\ content' = [content EXCEPT ![t] = text]
    /\ stored' = [stored EXCEPT ![t] = "none"]
    /\ result' = [result EXCEPT ![t] = "none"]
    /\ hist' = [hist EXCEPT ![t] = NoHist]
    /\ pc' = [pc EXCEPT ![t] = "c_db"]
    /\ UNCHANGED <<config, pool, tool_vars, search_vars, tag_vars,
                   db_vars, index_vars, lock_vars, bootstrap_runs, faults>>

UpdateEntry(t, id, text) ==
    /\ copy = "server.py"
    /\ CanStart(t)
    /\ op' = [op EXCEPT ![t] = "update"]
    /\ ops' = ops + 1
    /\ entry_id' = [entry_id EXCEPT ![t] = id]
    /\ content' = [content EXCEPT ![t] = text]
    /\ stored' = [stored EXCEPT ![t] = "none"]
    /\ result' = [result EXCEPT ![t] = "none"]
    /\ hist' = [hist EXCEPT ![t] = NoHist]
    /\ pc' = [pc EXCEPT ![t] = "c_db"]
    /\ UNCHANGED <<config, pool, tool_vars, search_vars, tag_vars,
                   db_vars, index_vars, lock_vars, bootstrap_runs, faults>>

\* cursor.lastrowid of the INSERT INTO memory_journal
lastrowid(table) ==
    IF DOMAIN table = {} THEN 1
    ELSE (CHOOSE i \in DOMAIN table : \A j \in DOMAIN table : j <= i) + 1

\* create_entry_in_db / update_entry_in_db on a worker thread: insert or
\* update the row and commit; update_entry_in_db returns None for an unknown id.
WriteJournal(t, ok) ==
    /\ pc[t] = "c_db"
    /\ ~ok => faults < MaxFaults
    /\ faults' = IF ok THEN faults ELSE faults + 1
    /\ pc' = [pc EXCEPT ![t] = "c_dbdone"]
    /\ IF op[t] = "create"
       THEN /\ ok => lastrowid(memory_journal) \in EntryIds
            /\ memory_journal' = IF ok
                                 THEN dict_set(memory_journal, lastrowid(memory_journal),
                                               content[t])
                                 ELSE memory_journal
            /\ entry_id' = [entry_id EXCEPT ![t] = IF ok THEN lastrowid(memory_journal) ELSE 0]
            /\ stored' = [stored EXCEPT ![t] = IF ok THEN "ok" ELSE "fail"]
            /\ hist' = [hist EXCEPT ![t].committed = ok]
       ELSE LET found == entry_id[t] \in DOMAIN memory_journal
            IN  /\ ~found => ok
                /\ memory_journal' = IF found /\ ok /\ content[t] # 0
                                     THEN dict_set(memory_journal, entry_id[t], content[t])
                                     ELSE memory_journal
                /\ stored' = [stored EXCEPT ![t] = IF ~found THEN "missing"
                                                   ELSE IF ok THEN "ok" ELSE "fail"]
                /\ hist' = [hist EXCEPT ![t].committed = (found /\ ok)]
                /\ UNCHANGED entry_id
    /\ UNCHANGED <<config, pool, tool_vars, search_vars, tag_vars,
                   embeddings, index_vars, lock_vars, op, content, result,
                   ops, bootstrap_runs>>

\* server.py 1780-1796 and 2132-2148: the handler goes on after the write.  An
\* exception of the job leaves the handler; an unknown id is reported; else
\* "if [content and] vector_search and vector_search.initialized" decides
\* whether add_entry_embedding is awaited (vector_search is None when the
\* capability is unavailable), which then runs up to dispatching encode.
Written(t) ==
    /\ pc[t] = "c_dbdone"
    /\ stored' = [stored EXCEPT ![t] = "none"]
    /\ IF stored[t] = "ok"
       THEN IF /\ (op[t] = "update" => content[t] # 0)
               /\ VECTOR_SEARCH_AVAILABLE
               /\ initialized
            THEN /\ pc' = [pc EXCEPT ![t] = "a_gen"]
                 /\ UNCHANGED result
            ELSE /\ pc' = [pc EXCEPT ![t] = "idle"]
                 /\ result' = [result EXCEPT ![t] = "success"]
       ELSE /\ pc' = [pc EXCEPT ![t] = "idle"]
            /\ result' = [result EXCEPT ![t] =
                              IF stored[t] = "missing" THEN "not_found" ELSE "error"]
    /\ UNCHANGED <<config, pool, tool_vars, search_vars, tag_vars,
                   db_vars, index_vars, lock_vars, op, entry_id, content,
                   ops, hist, bootstrap_runs, faults>>

\* ------------------------------------------------------- semantic_search
Min(a, b) == IF a <= b THEN a ELSE b

\* Mutant: only half of the requested neighbours are fetched.
fetch_k_Half(lim, index) == Min(lim \div 2, ntotal(index))

\* Line 296: min(limit * 2, self.faiss_index.ntotal)
fetch_k(lim, index) == Min(lim * 2, ntotal(index))

\* Inner product of the query with the vector at position p (0-based).
score_at(index, q, p) == Dot(q, index.vectors[p + 1])

\* faiss_index.search(query, k) of an IndexFlatIP: the k best positions with
\* their scores, best first.  Which of several positions of one score comes
\* first, or is left out, is up to the library: every such answer is here.
\* An answer is a sequence of <<score, idx>>.
faiss_search(index, q, k) ==
    LET n == ntotal(index)
        picks == {h \in [1..k -> 0..(n - 1)] :
                     /\ \A i, j \in 1..k : i < j =>
                            /\ h[i] # h[j]
                            /\ score_at(index, q, h[i]) >= score_at(index, q, h[j])
                     /\ \A p \in 0..(n - 1) : (\A i \in 1..k : h[i] # p) =>
                            \A i \in 1..k : score_at(index, q, p) <= score_at(index, q, h[i])}
    IN  {[i \in 1..k |-> <<score_at(index, q, h[i]), h[i]>>] : h \in picks}

\* Mutant: the threshold is not looked at.
keeps_All(score, threshold) == TRUE

\* Line 302: score >= similarity_threshold
keeps(score, threshold) == score >= threshold

\* Lines 300-305: the hits at or above the threshold, as (entry_id, score);
\* a position without a (truthy) entry id in the map is skipped.
RECURSIVE filter_hits(_, _, _)
filter_hits(hits, d, threshold) ==
    IF hits = <<>> THEN <<>>
    ELSE LET score == Head(hits)[1]
             idx == Head(hits)[2]
             rest == filter_hits(Tail(hits), d, threshold)
         IN  IF keeps(score, threshold) /\ idx \in DOMAIN d /\ d[idx] # 0
             THEN <<(<<d[idx], score>>)>> \o rest
             ELSE rest

\* Line 308: results.sort(key=lambda x: x[1], reverse=True), a stable sort.
RECURSIVE insert_desc(_, _)
insert_desc(sorted, x) ==
    IF sorted = <<>> THEN <<x>>
    ELSE IF Head(sorted)[2] >= x[2] THEN <<Head(sorted)>> \o insert_desc(Tail(sorted), x)
         ELSE <<x>> \o sorted

RECURSIVE sort_desc(_)
sort_desc(seq) ==
    IF seq = <<>> THEN <<>>
    ELSE insert_desc(sort_desc(SubSeq(seq, 1, Len(seq) - 1)), seq[Len(seq)])

\* Mutant: the list is returned whole.
truncate_None(seq, lim) == seq

\* Line 309: results[:limit]
truncate(seq, lim) == SubSeq(seq, 1, Min(lim, Len(seq)))

\* Lines 286-309: the lists semantic_search can return for normalised query q.
search_results(index, d, q, lim, threshold) ==
    {truncate(sort_desc(filter_hits(hits, d, threshold)), lim) :
        hits \in faiss_search(index, q, fetch_k(lim, index))}

\* Lines 263-283 (server.py 579-584): semantic_search called on the manager.
SemanticSearch(t, query, lim, threshold) ==
    /\ CanStart(t)
    /\ ManagerExists
    /\ op' = [op EXCEPT ![t] = "search"]
    /\ ops' = ops + 1
    /\ entry_id' = [entry_id EXCEPT ![t] = 0]
    /\ content' = [content EXCEPT ![t] = query]
    /\ stored' = [stored EXCEPT ![t] = "none"]
    /\ limit' = [limit EXCEPT ![t] = lim]
    /\ similarity_threshold' = [similarity_threshold EXCEPT ![t] = threshold]
    /\ results' = [results EXCEPT ![t] = <<>>]
    /\ ensure_initialized(t, "search", NoHist)
    /\ UNCHANGED <<config, pool, tool_vars, tag_vars, db_vars, index_vars, faults>>

\* server.py 1967-1996: the semantic_search tool.  "if not vector_search"
\* answers at once; otherwise _ensure_initialized is awaited.
SemanticSearchTool(t, query, lim, threshold) ==
    /\ copy = "server.py"
    /\ CanStart(t)
    /\ op' = [op EXCEPT ![t] = "tool"]
    /\ ops' = ops + 1
    /\ entry_id' = [entry_id EXCEPT ![t] = 0]
    /\ content' = [content EXCEPT ![t] = query]
    /\ stored' = [stored EXCEPT ![t] = "none"]
    /\ limit' = [limit EXCEPT ![t] = lim]
    /\ similarity_threshold' = [similarity_threshold EXCEPT ![t] = threshold]
    /\ results' = [results EXCEPT ![t] = <<>>]
    /\ IF VECTOR_SEARCH_AVAILABLE
       THEN ensure_initialized(t, "tool", [NoHist EXCEPT !.gone = deleted_at])
       ELSE /\ pc' = [pc EXCEPT ![t] = "idle"]
            /\ result' = [result EXCEPT ![t] = "unavailable"]
            /\ hist' = [hist EXCEPT ![t] = [NoHist EXCEPT !.not_ready = TRUE]]
            /\ UNCHANGED <<lock_vars, bootstrap_runs>>
    /\ UNCHANGED <<config, pool, tool_vars, tag_vars, db_vars, index_vars, faults>>

\* Lines 286-313 (server.py 586-611, 1996-2003): model.encode has run on a
\* worker for the query.  An exception is caught and [] returned; otherwise
\* the index is searched and the hits are filtered, sorted and cut.  The tool
\* answers an empty list with "No semantically similar entries found" and
\* dispatches the lookup of the entries otherwise.
QueryEncoded(t, ok) ==
    /\ pc[t] = "s_gen"
    /\ ~ok => faults < MaxFaults
    /\ faults' = IF ok THEN faults ELSE faults + 1
    /\ \E found \in IF ok
                     THEN search_results(faiss_index, entry_id_map,
                                         normalize_L2(encode(content[t])),
                                         limit[t], similarity_threshold[t])
                     ELSE {<<>>} :
           /\ results' = [results EXCEPT ![t] = found]
           /\ pc' = [pc EXCEPT ![t] = IF op[t] = "tool" /\ found # <<>> THEN "s_fetch" ELSE "idle"]
           /\ result' = [result EXCEPT ![t] =
                             CASE op[t] = "search" -> "list"
                               [] found = <<>> -> "no_results"
                               [] OTHER -> "none"]
    /\ hist' = [hist EXCEPT ![t].gen_failed = ~ok]
    /\ UNCHANGED <<config, pool, tool_vars, tag_vars, db_vars, index_vars, lock_vars, op, entry_id,
                   content, stored, ops, bootstrap_runs, limit, similarity_threshold>>

\* Lines 2009-2013: SELECT ... FROM memory_journal WHERE id IN (...): the ids
\* of the rows found; gone are the ids of the rows whose deleted_at is set.
where_id_in(journal, gone, ids) == {i \in ids : i \in DOMAIN journal}

\* Lines 2005-2028: the dict entries built from the rows of the hits.
get_semantic_entry_details(journal, gone, found) ==
    where_id_in(journal, gone, {found[i][1] : i \in 1..Len(found)})

\* Lines 2037-2047: "if entry_id in entries" writes the entry into the answer.
RECURSIVE result_text(_, _)
result_text(found, entries) ==
    IF found = <<>> THEN <<>>
    ELSE IF Head(found)[1] \in entries
         THEN <<Head(found)[1]>> \o result_text(Tail(found), entries)
         ELSE result_text(Tail(found), entries)

\* server.py 2005-2058: get_semantic_entry_details has run on a worker; the
\* tool answers with the formatted results, or with the error text when the
\* lookup raised.
EntryDetails(t, ok) ==
    /\ pc[t] = "s_fetch"
    /\ ~ok => faults < MaxFaults
    /\ faults' = IF ok THEN faults ELSE faults + 1
    /\ pc' = [pc EXCEPT ![t] = "idle"]
    /\ result' = [result EXCEPT ![t] = IF ok THEN "results" ELSE "error"]
    /\ listed' = [listed EXCEPT ![t] =
                      IF ok
                      THEN result_text(results[t],
                               get_semantic_entry_details(memory_journal, deleted_at, results[t]))
                      ELSE <<>>]
    /\ UNCHANGED <<config, pool, deleted_at, search_vars, tag_vars, db_vars, index_vars,
                   lock_vars, op, entry_id, content, stored, ops, hist, bootstrap_runs>>

\* ------------------------------------------------------------ delete_entry
\* DELETE FROM memory_journal WHERE id = ?
delete_row(journal, id) == [i \in (DOMAIN journal) \ {id} |-> journal[i]]

\* server.py 2150-2191: the delete_entry tool; delete_entry_in_db runs as one
\* job of a worker thread, in one transaction.  An unknown id is reported;
\* permanent removes the row of memory_journal, otherwise its deleted_at is
\* set.  The embedding row, the index and the position map are not touched.
DeleteEntry(t, id, permanent, ok) ==
    /\ copy = "server.py"
    /\ CanStart(t)
    /\ ~ok => faults < MaxFaults
    /\ faults' = IF ok THEN faults ELSE faults + 1
    /\ op' = [op EXCEPT ![t] = "delete"]
    /\ ops' = ops + 1
    /\ entry_id' = [entry_id EXCEPT ![t] = id]
    /\ content' = [content EXCEPT ![t] = 0]
    /\ hist' = [hist EXCEPT ![t] = NoHist]
    /\ memory_journal' = IF ok /\ permanent /\ id \in DOMAIN memory_journal
                         THEN delete_row(memory_journal, id)
                         ELSE memory_journal
    /\ deleted_at' = IF ok /\ ~permanent /\ id \in DOMAIN memory_journal
                     THEN deleted_at \cup {id}
                     ELSE deleted_at
    /\ result' = [result EXCEPT ![t] = CASE ~ok -> "raised"
                                          [] id \notin DOMAIN memory_journal -> "not_found"
                                          [] permanent -> "permanently deleted"
                                          [] OTHER -> "soft deleted"]
    /\ UNCHANGED <<config, pool, listed, search_vars, tag_vars, embeddings, index_vars,
                   lock_vars, pc, stored, bootstrap_runs>>

\* ------------------------------------------------------ auto_create_tags
\* Tag names handed to auto_create_tags, and the lists made of them.
TagNames == {"a", "b"}
TagLists ==
    {<<>>} \cup {<<n>> : n \in TagNames} \cup {<<n, m>> : n \in TagNames, m \in TagNames}

\* A row of table tags.
TagRow(i, n, count) == [id |-> i, name |-> n, usage_count |-> count]

\* Tables left behind by earlier runs.
TagTables == { {}, {TagRow(1, "b", 3)} }

next_tag_id(table) ==
    IF table = {} THEN 1
    ELSE (CHOOSE r \in table : \A x \in table : x.id <= r.id).id + 1

\* The uniqueness constraint of tags (schema.sql): a name has one row.
tag_conflicts(table, n) == \E r \in table : r.name = n

\* Mutant: INSERT OR REPLACE, which deletes the row of the name first.
insert_or_ignore_Replace(table, n) ==
    {r \in table : r.name # n} \cup {TagRow(next_tag_id(table), n, 1)}

\* Lines 269-272: INSERT OR IGNORE INTO tags (name, usage_count) VALUES (?, 1)
insert_or_ignore(table, n) ==
    IF tag_conflicts(table, n) THEN table
    ELSE table \cup {TagRow(next_tag_id(table), n, 1)}

\* Lines 275-278: SELECT id FROM tags WHERE name = ?; fetchone(); "if row:"
\* appends the id of the first row, if there is one.
select_tag_id(table, n) ==
    LET ids == {r.id : r \in {x \in table : x.name = n}}
    IN  IF ids = {} THEN <<>>
        ELSE <<CHOOSE i \in ids : \A j \in ids : i <= j>>

\* Lines 264-280: the loop over tag_names in one transaction; the table and
\* the list tag_ids it ends with.
RECURSIVE auto_create_tags(_, _)
auto_create_tags(table, names) ==
    IF names = <<>> THEN [table |-> table, tag_ids |-> <<>>]
    ELSE LET before == auto_create_tags(table, SubSeq(names, 1, Len(names) - 1))
             after == insert_or_ignore(before.table, names[Len(names)])
         IN  [table |-> after,
              tag_ids |-> before.tag_ids \o select_tag_id(after, names[Len(names)])]

\* db.auto_create_tags(tag_names) run as one job of a worker thread; the
\* connection commits when the with block ends and rolls back when it raises.
AutoCreateTags(t, names, ok) ==
    /\ copy = "server.py"
    /\ CanStart(t)
    /\ ~ok => faults < MaxFaults
    /\ faults' = IF ok THEN faults ELSE faults + 1
    /\ op' = [op EXCEPT ![t] = "tags"]
    /\ ops' = ops + 1
    /\ tag_names' = [tag_names EXCEPT ![t] = names]
    /\ tags' = IF ok THEN auto_create_tags(tags, names).table ELSE tags
    /\ tag_ids' = [tag_ids EXCEPT ![t] = IF ok THEN auto_create_tags(tags, names).tag_ids
                                         ELSE <<>>]
    /\ result' = [result EXCEPT ![t] = IF ok THEN "list" ELSE "raised"]
    /\ hist' = [hist EXCEPT ![t] = NoHist]
    /\ entry_id' = [entry_id EXCEPT ![t] = 0]
    /\ content' = [content EXCEPT ![t] = 0]
    /\ UNCHANGED <<config, pool, tool_vars, search_vars, db_vars, index_vars, lock_vars, pc, stored,
                   bootstrap_runs>>

\* ----------------------------------------------------------- cancellation
Suspended == {"e_wait", "e_load", "a_gen", "a_store", "a_stored", "c_db", "c_dbdone",
              "s_gen", "s_fetch"}

RECURSIVE Without(_, _)
Without(q, t) ==
    IF q = <<>> THEN <<>>
    ELSE IF Head(q) = t THEN Without(Tail(q), t)
         ELSE <<Head(q)>> \o Without(Tail(q), t)

\* Mutant: the cancelled call is left suspended where it was.
AfterCancel_Pending(at) == at

\* Where the task is once CancelledError has left the coroutine.
AfterCancel(at) == "idle"

\* The store_embedding job of a call: what it writes.
StoreJob(id, text) == [entry_id |-> id, content |-> text]

\* task.cancel(): CancelledError is raised at the await the task is suspended
\* on.  It is no Exception, so no except clause of the code catches it; the
\* async with releases the lock, a waiter leaves the lock's queue.  A job the
\* worker has already run keeps its effect.  running: the call's
\* store_embedding job has been started by a worker, which runs it to its end
\* whatever became of the call; a job still queued is dropped with the call.
Cancel(t, running) ==
    /\ pc[t] \in Suspended
    /\ running => pc[t] = "a_store"
    /\ faults < MaxFaults
    /\ faults' = faults + 1
    /\ pc' = [pc EXCEPT ![t] = AfterCancel(pc[t])]
    /\ result' = [result EXCEPT ![t] = "cancelled"]
    /\ stored' = [stored EXCEPT ![t] = "none"]
    /\ lock_holder' = IF lock_holder = t THEN NoTask ELSE lock_holder
    /\ lock_waiters' = Without(lock_waiters, t)
    /\ pool' = IF running THEN pool \cup {StoreJob(entry_id[t], content[t])} ELSE pool
    /\ UNCHANGED <<config, tool_vars, search_vars, tag_vars,
                   db_vars, index_vars, op, entry_id, content, ops, hist,
                   bootstrap_runs>>

\* Lines 239-245: the store_embedding job of a cancelled call commits.
StoreEmbeddingDetached(job) ==
    /\ job \in pool
    /\ pool' = pool \ {job}
    /\ embeddings' = insert_or_replace(embeddings,
                          EmbeddingRow(job.entry_id, VECTOR_SEARCH_MODEL,
                                       pickle_dumps(encode(job.content))))
    /\ UNCHANGED <<config, tool_vars, search_vars, tag_vars, memory_journal, index_vars, lock_vars,
                   pc, op, entry_id, content, stored, result, ops, hist, bootstrap_runs,
                   faults>>

\* A process started over any of the tags tables.
InitTags == \E d \in InitDatabases : \E tagrows \in TagTables : Start(d, tagrows)

\* ------------------------------------------------------------------- Next
\* The manager's lifecycle: concurrent _ensure_initialized calls.
NextEnsure ==
    \/ \E t \in Tasks : EnsureReady(t)
    \/ \E t \in Tasks : LockAcquired(t)
    \/ \E t \in Tasks : \E fault \in {"none", "model", "load"} : Bootstrap(t, fault)
    \/ \E t \in Tasks : Cancel(t, FALSE)

\* Ingestion through the manager: add_entry_embedding calls.
NextIngest ==
    \/ \E t \in Tasks : Cancel(t, FALSE)
    \/ \E t \in Tasks : LockAcquired(t)
    \/ \E t \in Tasks : \E fault \in {"none", "model", "load"} : Bootstrap(t, fault)
    \/ \E t \in Tasks : \E id \in EntryIds : \E text \in Texts : AddEntryEmbedding(t, id, text)
    \/ \E t \in Tasks : \E ok \in BOOLEAN : Encoded(t, ok)
    \/ \E t \in Tasks : \E ok \in BOOLEAN : StoreEmbedding(t, ok)
    \/ \E t \in Tasks : \E ok \in BOOLEAN : IndexAdd(t, ok)

\* Ingestion with calls cancelled at any of their awaits, no step failing.
NextCancel ==
    \/ \E t \in Tasks : \E running \in BOOLEAN : Cancel(t, running)
    \/ \E t \in Tasks : LockAcquired(t)
    \/ \E t \in Tasks : Bootstrap(t, "none")
    \/ \E t \in Tasks : \E id \in EntryIds : \E text \in Texts : AddEntryEmbedding(t, id, text)
    \/ \E t \in Tasks : Encoded(t, TRUE)
    \/ \E t \in Tasks : StoreEmbedding(t, TRUE)
    \/ \E t \in Tasks : IndexAdd(t, TRUE)
    \/ \E id \in EntryIds : \E text \in Texts : StoreEmbeddingDetached(StoreJob(id, text))

\* The tool handlers of server.py on top of the manager.
NextTools ==
    \/ \E t \in Tasks : EnsureReady(t)
    \/ \E t \in Tasks : LockAcquired(t)
    \/ \E t \in Tasks : \E fault \in {"none", "model", "load"} : Bootstrap(t, fault)
    \/ \E t \in Tasks : \E ok \in BOOLEAN : Encoded(t, ok)
    \/ \E t \in Tasks : \E ok \in BOOLEAN : StoreEmbedding(t, ok)
    \/ \E t \in Tasks : \E ok \in BOOLEAN : IndexAdd(t, ok)
    \/ \E t \in Tasks : \E text \in Texts : CreateEntry(t, text)
    \/ \E t \in Tasks : \E id \in EntryIds : \E text \in Texts \cup {0} : UpdateEntry(t, id, text)
    \/ \E t \in Tasks : \E ok \in BOOLEAN : WriteJournal(t, ok)
    \/ \E t \in Tasks : Written(t)

\* Queries: semantic_search calls on the manager.
NextSearch ==
    \/ \E t \in Tasks : LockAcquired(t)
    \/ \E t \in Tasks : \E fault \in {"none", "model", "load"} : Bootstrap(t, fault)
    \/ \E t \in Tasks : \E query \in Queries : \E lim \in Limits : \E threshold \in Thresholds :
           SemanticSearch(t, query, lim, threshold)
    \/ \E t \in Tasks : \E ok \in BOOLEAN : QueryEncoded(t, ok)

\* Queries from both callers: the semantic_search tool of server.py, and
\* semantic_search called on the manager.
NextSearchTool ==
    \/ \E t \in Tasks : LockAcquired(t)
    \/ \E t \in Tasks : \E fault \in {"none", "model", "load"} : Bootstrap(t, fault)
    \/ \E t \in Tasks : \E query \in Queries : \E lim \in ToolLimits :
           \E threshold \in ToolThresholds : SemanticSearch(t, query, lim, threshold)
    \/ \E t \in Tasks : \E query \in Queries : \E lim \in ToolLimits :
           \E threshold \in ToolThresholds : SemanticSearchTool(t, query, lim, threshold)
    \/ \E t \in Tasks : \E ok \in BOOLEAN : QueryEncoded(t, ok)
    \/ \E t \in Tasks : \E ok \in BOOLEAN : EntryDetails(t, ok)

\* Ingestion and queries on one manager: add_entry_embedding and
\* semantic_search calls side by side.
NextService ==
    \/ \E t \in Tasks : LockAcquired(t)
    \/ \E t \in Tasks : \E fault \in {"none", "model", "load"} : Bootstrap(t, fault)
    \/ \E t \in Tasks : \E id \in EntryIds : \E text \in Texts : AddEntryEmbedding(t, id, text)
    \/ \E t \in Tasks : \E ok \in BOOLEAN : Encoded(t, ok)
    \/ \E t \in Tasks : \E ok \in BOOLEAN : StoreEmbedding(t, ok)
    \/ \E t \in Tasks : \E ok \in BOOLEAN : IndexAdd(t, ok)
    \/ \E t \in Tasks : \E query \in Queries : \E lim \in ServiceLimits :
           \E threshold \in ServiceThresholds : SemanticSearch(t, query, lim, threshold)
    \/ \E t \in Tasks : \E ok \in BOOLEAN : QueryEncoded(t, ok)

\* The semantic_search tool next to the delete_entry tool.
NextDelete ==
    \/ \E t \in Tasks : LockAcquired(t)
    \/ \E t \in Tasks : \E fault \in {"none", "model", "load"} : Bootstrap(t, fault)
    \/ \E t \in Tasks : \E query \in Queries : \E lim \in ToolLimits :
           \E threshold \in ToolThresholds : SemanticSearchTool(t, query, lim, threshold)
    \/ \E t \in Tasks : \E ok \in BOOLEAN : QueryEncoded(t, ok)
    \/ \E t \in Tasks : \E ok \in BOOLEAN : EntryDetails(t, ok)
    \/ \E t \in Tasks : \E id \in EntryIds : \E permanent \in BOOLEAN : \E ok \in BOOLEAN :
           DeleteEntry(t, id, permanent, ok)

\* Tag creation: auto_create_tags calls of the worker threads.
NextTags ==
    \E t \in Tasks : \E names \in TagLists : \E ok \in BOOLEAN : AutoCreateTags(t, names, ok)

Next ==
    \/ NextEnsure \/ NextIngest \/ NextTools \/ NextSearch \/ NextSearchTool \/ NextTags
    \/ NextService \/ NextCancel \/ NextDelete

SpecEnsure == Init /\ [][NextEnsure]_vars
\* The loop runs every task that is ready, and every job handed to the pool
\* comes back: the waiter woken by the lock goes on, and the model load ends.
SpecEnsureFair ==
    /\ SpecEnsure
    /\ WF_vars(\E t \in Tasks : LockAcquired(t))
    /\ WF_vars(\E t \in Tasks : \E fault \in {"none", "model", "load"} : Bootstrap(t, fault))
SpecIngest == Init /\ [][NextIngest]_vars
SpecTools == Init /\ [][NextTools]_vars
SpecLoad == InitLoad /\ [][NextEnsure]_vars
SpecSearch == InitLoad /\ [][NextSearch]_vars
SpecSearchTool == InitLoad /\ [][NextSearchTool]_vars
SpecTags == InitTags /\ [][NextTags]_vars
SpecService == Init /\ [][NextService]_vars
SpecCancel == Init /\ [][NextCancel]_vars
SpecDelete == InitLoad /\ [][NextDelete]_vars
Spec == Init /\ [][Next]_vars


\* ------------------------------------------------------------------ claims
InBootstrap(t) == pc[t] = "e_load"
InEnsure(t) == pc[t] \in {"e_wait", "e_load"}
InAdd(t) == pc[t] \in {"a_gen", "a_store", "a_stored"}
Returned(t, kind) == op[t] = kind /\ pc[t] = "idle" /\ result[t] \notin {"none", "cancelled"}

MappedIds == {entry_id_map[p] : p \in DOMAIN entry_id_map}

\* C1: single-flight bootstrap, whatever its outcome: a call that was
\* suspended on the lock behind a running bootstrap never enters the bootstrap
\* body itself, so concurrent calls run the body once in total.
C1_WaitersNeverBootstrap ==
    \A t \in Tasks : hist[t].waited => ~hist[t].ran_bootstrap

\* C2: at most one task is inside the bootstrap body, that task holds the
\* lock, and every other task inside _ensure_initialized is suspended in the
\* lock's queue while the body runs.
C2_BootstrapMutex ==
    /\ Cardinality({t \in Tasks : InBootstrap(t)}) <= 1
    /\ \A t \in Tasks : InBootstrap(t) <=> lock_holder = t
    /\ \A t \in Tasks : pc[t] = "e_wait" <=> \E i \in 1..Len(lock_waiters) : lock_waiters[i] = t

C2_Witness ==
    \E t, u \in Tasks : InBootstrap(t) /\ pc[u] = "e_wait" /\ hist[u].waited

\* C3: once initialized, the position map has as many entries as the index
\* has vectors, and its keys are exactly the positions 0..ntotal-1.
C3_MapMatchesIndex ==
    initialized =>
        /\ Cardinality(DOMAIN entry_id_map) = ntotal(faiss_index)
        /\ DOMAIN entry_id_map = 0..(ntotal(faiss_index) - 1)

C3_Witness ==
    /\ initialized
    /\ ntotal(faiss_index) >= 2
    /\ \E t \in Tasks : Returned(t, "add") /\ result[t] = "false"
                        /\ (hist[t].gen_failed \/ hist[t].store_failed \/ hist[t].append_failed)

\* C4: the position map is injective: no two positions map to one entry id,
\* also after add_entry_embedding is called again for an indexed entry.
C4_MapInjective ==
    \A p, q \in DOMAIN entry_id_map : p # q => entry_id_map[p] # entry_id_map[q]

\* C5: in every quiescent state after initialization the entry ids reachable
\* through the position map are the entry ids with a stored embedding of the
\* active model.
C5_StoreMatchesIndex ==
    (initialized /\ \A t \in Tasks : ~InAdd(t)) => MappedIds = StoredIds

\* C6: positions are dense and permanent: a step never removes or remaps a
\* mapped position, a call that appends gets the size before the append as its
\* position, and the position a call was given keeps mapping to its entry id.
C6_Step ==
    /\ \A p \in DOMAIN entry_id_map :
           p \in DOMAIN entry_id_map' /\ entry_id_map'[p] = entry_id_map[p]
    /\ \A t \in Tasks :
           (hist'[t].position # hist[t].position /\ hist'[t].position # -1) =>
               /\ hist'[t].position = ntotal(faiss_index)
               /\ ntotal(faiss_index') = ntotal(faiss_index) + 1
               /\ DOMAIN entry_id_map' = (DOMAIN entry_id_map) \cup {ntotal(faiss_index)}
               /\ entry_id_map'[ntotal(faiss_index)] = entry_id[t]

C6_PositionsPermanent == [][C6_Step]_vars

C6_Witness ==
    \E t, u \in Tasks :
        /\ hist[t].position = 0 /\ hist[u].position = 1
        /\ ntotal(faiss_index) = 2
        /\ entry_id_map[0] = entry_id[t] /\ entry_id_map[1] = entry_id[u]

\* C7: the lifecycle moves only along Uninitialized -> Initializing -> Ready
\* and Uninitialized -> Initializing -> Failed, and from Failed back to
\* Initializing by a task in _ensure_initialized; Ready is never left; every
\* transition is made by the task that takes or holds the lock.
LifeOf(inited, pcs, runs) ==
    IF inited THEN "Ready"
    ELSE IF \E t \in Tasks : pcs[t] = "e_load" THEN "Initializing"
    ELSE IF runs > 0 THEN "Failed"
    ELSE "Uninitialized"

Life == LifeOf(initialized, pc, bootstrap_runs)

LifeEdges == { <<"Uninitialized", "Initializing">>, <<"Initializing", "Ready">>,
               <<"Initializing", "Failed">>, <<"Failed", "Initializing">> }

C7_Step ==
    LET after == LifeOf(initialized', pc', bootstrap_runs')
    IN  /\ initialized => initialized'
        /\ after # Life =>
              /\ <<Life, after>> \in LifeEdges
              /\ after = "Initializing" =>
                     \E t \in Tasks : pc[t] # "e_load" /\ pc'[t] = "e_load" /\ lock_holder' = t
              /\ Life = "Initializing" =>
                     \E t \in Tasks : pc[t] = "e_load" /\ lock_holder = t /\ lock_holder' = NoTask

C8_Step ==
    \A t \in Tasks :
        (pc[t] = "e_load" /\ hist'[t].boot_failed) =>
            /\ ~initialized'
            /\ lock_holder' = NoTask
            /\ result'[t] = "raised"

C8_FailureReraised == [][C8_Step]_vars

\* C9: add_entry_embedding returns False when embedding generation, the
\* durable upsert or the index append fails, raises for none of them, and
\* returns True only after the upsert, the append and the map update.
C9_AddResult ==
    \A t \in Tasks : Returned(t, "add") =>
        /\ result[t] \in {"true", "false", "raised"}
        /\ result[t] = "raised" => hist[t].boot_failed
        /\ (hist[t].gen_failed \/ hist[t].store_failed \/ hist[t].append_failed)
               => result[t] = "false"
        /\ result[t] = "true" =>
               /\ hist[t].upserted
               /\ entry_id[t] \in StoredIds
               /\ hist[t].position \in DOMAIN entry_id_map
               /\ hist[t].position < ntotal(faiss_index)
               /\ entry_id_map[hist[t].position] = entry_id[t]

C9_Witness ==
    /\ \E t \in Tasks : Returned(t, "add") /\ result[t] = "true"
    /\ \E t \in Tasks : Returned(t, "add") /\ result[t] = "false" /\ hist[t].store_failed

\* C10: once the memory_journal write of create_entry / update_entry has
\* committed, the tool answers with success whatever became of the embedding,
\* and the row is still there.
C10_WriteSucceeds ==
    \A t \in Tasks : (op[t] \in {"create", "update"} /\ Returned(t, op[t]) /\ hist[t].committed) =>
        /\ result[t] = "success"
        /\ entry_id[t] \in DOMAIN memory_journal

C10_Witness ==
    \E t \in Tasks : /\ Returned(t, "create") /\ hist[t].committed
                     /\ hist[t].gen_failed /\ result[t] = "success"

\* ------------------------------------------------------- claims on queries
Searched(t) == op[t] \in SearchKinds /\ Returned(t, op[t])

\* The call got its list from the index: it was handed to the pool and
\* model.encode did not raise.
Answered(t) == Searched(t) /\ hist[t].dispatched /\ ~hist[t].gen_failed

QueryOf(t) == normalize_L2(encode(content[t]))
Positions == 0..(ntotal(faiss_index) - 1)

\* Positions whose score against the query of t reaches its threshold.
Qualifying(t) ==
    {p \in Positions : score_at(faiss_index, QueryOf(t), p) >= similarity_threshold[t]}

\* C11: when the embedding capability is unavailable or the bootstrap has
\* failed, a semantic_search call does not get the response that a Ready
\* index with no vector at the threshold gives (the empty list, or the tool's
\* "No semantically similar entries found").
C11_UnavailableDistinct ==
    \A t \in Tasks : (Searched(t) /\ hist[t].not_ready) =>
        /\ ~(result[t] = "list" /\ results[t] = <<>>)
        /\ result[t] # "no_results"

\* C12: no pair returned by semantic_search has a score below
\* similarity_threshold, and a position whose score equals the threshold is
\* in the list unless limit better-or-equal ones fill it.
C12_ThresholdCorrect ==
    \A t \in Tasks : Searched(t) =>
        /\ \A i \in 1..Len(results[t]) : results[t][i][2] >= similarity_threshold[t]
        /\ Answered(t) =>
              \A p \in Positions :
                  score_at(faiss_index, QueryOf(t), p) = similarity_threshold[t] =>
                      \/ Len(results[t]) = limit[t]
                      \/ \E i \in 1..Len(results[t]) :
                             results[t][i] = <<entry_id_map[p], similarity_threshold[t]>>

C12_Witness ==
    \E t \in Tasks :
        /\ Answered(t) /\ op[t] = "search"
        /\ \E i \in 1..Len(results[t]) : results[t][i][2] = similarity_threshold[t]
        /\ \E p \in Positions : p \notin Qualifying(t)

\* C13: semantic_search returns exactly min(limit, q) pairs, q being the
\* number of indexed positions that reach the threshold, and they are
\* highest-scoring such positions with their entry ids: fetching
\* min(2 * limit, size) neighbours never leaves the list short.
C13_NoStarvation ==
    \A t \in Tasks : Answered(t) =>
        LET n == Len(results[t])
        IN  /\ n = Min(limit[t], Cardinality(Qualifying(t)))
            /\ \E h \in [1..n -> Qualifying(t)] :
                   /\ \A i, j \in 1..n : i # j => h[i] # h[j]
                   /\ \A i \in 1..n :
                          results[t][i] = <<entry_id_map[h[i]],
                                            score_at(faiss_index, QueryOf(t), h[i])>>
                   /\ \A p \in Qualifying(t) : (\A i \in 1..n : h[i] # p) =>
                          \A i \in 1..n : score_at(faiss_index, QueryOf(t), p) <= results[t][i][2]

C13_Witness ==
    \E t \in Tasks :
        /\ Answered(t) /\ op[t] = "search"
        /\ limit[t] = 1 /\ ntotal(faiss_index) = 3
        /\ Cardinality(Qualifying(t)) = 2
        /\ Len(results[t]) = 1

\* C14: the list returned by semantic_search is non-increasing in score and
\* has at most limit elements.
C14_Ranked ==
    \A t \in Tasks : Searched(t) =>
        /\ Len(results[t]) <= limit[t]
        /\ \A i, j \in 1..Len(results[t]) : i < j => results[t][i][2] >= results[t][j][2]

C14_Witness ==
    \E t \in Tasks :
        /\ Answered(t) /\ op[t] = "search"
        /\ Len(results[t]) = 2 /\ limit[t] = 2
        /\ results[t][1][2] > results[t][2][2]
        /\ Cardinality(Qualifying(t)) = 3

\* C15: after a bootstrap over no stored embedding, with nothing added
\* since, semantic_search returns the empty list, does not raise, and hands
\* no embedding generation to the pool.
C15_EmptyIndex ==
    \A t \in Tasks :
        (Searched(t) /\ ~hist[t].not_ready /\ initialized /\ ntotal(faiss_index) = 0) =>
            /\ result[t] \in {"list", "no_results"}
            /\ results[t] = <<>>
            /\ ~hist[t].dispatched

C15_Witness ==
    \E t \in Tasks :
        /\ Searched(t) /\ op[t] = "search" /\ ~hist[t].not_ready
        /\ initialized /\ ntotal(faiss_index) = 0 /\ StoredIds = {}
        /\ hist[t].ran_bootstrap

\* ------------------------------------------- claims on the durable store
ActiveRows == {r \in embeddings : r.embedding_model = VECTOR_SEARCH_MODEL}

\* The orders in which the rows of a table can have been written.
Orders(table) ==
    {w \in [1..Cardinality(table) -> table] :
        \A i, j \in 1..Cardinality(table) : i # j => w[i] # w[j]}

\* Two active rows lie in the table against the order of their entry ids.
OutOfOrder == \E r, x \in ActiveRows : r.rowid < x.rowid /\ r.entry_id > x.entry_id

\* C16: a manager bootstrapped from the same rows written in any other order
\* ends with the same position map and the same index size as this one.
C16_RebuildDeterministic ==
    (initialized /\ \A t \in Tasks : hist[t].position = -1) =>
        \A w \in Orders(embeddings) :
            /\ loaded_map(EmptyDict, written(w)) = entry_id_map
            /\ ntotal(loaded_index(written(w))) = ntotal(faiss_index)

C16_Witness ==
    /\ initialized /\ OutOfOrder
    /\ ntotal(faiss_index) = 3
    /\ \E t \in Tasks : hist[t].ran_bootstrap /\ pc[t] = "idle"

\* C17: the store holds at most one row per (entry_id, embedding_model); a
\* store_embedding that commits leaves exactly one row for its key, holding
\* the vector just written, whether or not the key had a row, and leaves the
\* rows of other keys as they were.
UniqueKeys(table) == \A r, x \in table : conflicts(r, x) => r = x

C17_Step ==
    /\ UniqueKeys(embeddings) /\ UniqueKeys(embeddings')
    /\ \A t \in Tasks :
           (pc[t] = "a_store" /\ pc'[t] = "a_stored" /\ hist'[t].upserted) =>
               LET mine == {r \in embeddings' : r.entry_id = entry_id[t]
                                                /\ r.embedding_model = VECTOR_SEARCH_MODEL}
               IN  /\ Cardinality(mine) = 1
                   /\ \A r \in mine : r.embedding_vector = pickle_dumps(encode(content[t]))
                   /\ stored'[t] = "ok"
                   /\ embeddings' \ mine = embeddings \ {r \in embeddings :
                          r.entry_id = entry_id[t] /\ r.embedding_model = VECTOR_SEARCH_MODEL}

C17_IdempotentUpsert == [][C17_Step]_vars

C17_Witness ==
    /\ \E t \in Tasks : hist[t].upserted /\ hist[t].replaced
    /\ \E t \in Tasks : hist[t].upserted /\ ~hist[t].replaced
    /\ \E r \in embeddings : r.rowid > Cardinality(embeddings)

\* C18: a row that does not unpickle is skipped by the bootstrap: the other
\* rows of the active model are appended and the manager is initialized.
C18_CorruptSkipped ==
    \A t \in Tasks :
        (op[t] = "ensure" /\ pc[t] = "idle" /\ hist[t].ran_bootstrap
            /\ result[t] # "cancelled" /\ faults = 0) =>
                /\ initialized
                /\ ntotal(faiss_index) =
                       Cardinality({r \in ActiveRows : ~loads_raises(r.embedding_vector)})

\* C20: after a successful bootstrap the index holds the n rows of the active
\* model and no other, and position i maps to the entry id of the i-th of
\* them in ascending entry_id order and holds its normalised vector.
C20_BootstrapOrder ==
    (initialized /\ \A t \in Tasks : hist[t].position = -1) =>
        /\ ntotal(faiss_index) = Cardinality(ActiveRows)
        /\ DOMAIN entry_id_map = 0..(Cardinality(ActiveRows) - 1)
        /\ \A r \in ActiveRows :
               LET i == Cardinality({x \in ActiveRows : x.entry_id < r.entry_id})
               IN  /\ entry_id_map[i] = r.entry_id
                   /\ faiss_index.vectors[i + 1] = normalize_L2(pickle_loads(r.embedding_vector))

C20_Witness ==
    /\ initialized
    /\ Cardinality(ActiveRows) = 3
    /\ \E r \in embeddings : r.embedding_model = OTHER_MODEL
    /\ \E r, x \in ActiveRows : r.rowid > x.rowid /\ r.entry_id < x.entry_id
    /\ entry_id_map[0] = 1

\* ---------------------------------------------------------- claims on tags
TagsReturned(t) == op[t] = "tags" /\ pc[t] = "idle" /\ result[t] = "list"

\* C19: auto_create_tags returns one id per name, in input order, each the id
\* of the one row of that name; rows that exist are kept as they are, so a
\* name gets the same id in every call and the table has one row per name.
C19_Step ==
    /\ tags \subseteq tags'
    /\ \A r, x \in tags' : (r.name = x.name \/ r.id = x.id) => r = x
    /\ \A t \in Tasks : TagsReturned(t)' =>
           /\ Len(tag_ids'[t]) = Len(tag_names'[t])
           /\ \A i \in 1..Len(tag_names'[t]) :
                  \E r \in tags' : r.id = tag_ids'[t][i] /\ r.name = tag_names'[t][i]
           /\ \A u \in Tasks : TagsReturned(u)' =>
                  \A i \in 1..Len(tag_names'[t]) : \A j \in 1..Len(tag_names'[u]) :
                      tag_names'[t][i] = tag_names'[u][j] => tag_ids'[t][i] = tag_ids'[u][j]

C19_TagsIdempotent == [][C19_Step]_vars

C19_Witness ==
    \E t, u \in Tasks :
        /\ t # u /\ TagsReturned(t) /\ TagsReturned(u)
        /\ Len(tag_names[u]) = 2
        /\ \E i \in 1..Len(tag_names[t]) : tag_names[t][i] = tag_names[u][1]
        /\ Cardinality(tags) >= 2
        /\ TagRow(1, "b", 3) \in tags

\* ------------------------------------------------- claims on the service
\* Steps of a call that touch the store or the index.
Upserts(t) == pc[t] = "a_store" /\ pc'[t] = "a_stored"
Appends(t) ==
    pc[t] = "a_stored" /\ (faiss_index' # faiss_index \/ entry_id_map' # entry_id_map)
Searches(t) == pc[t] = "s_gen" /\ hist'[t].dispatched /\ ~hist'[t].gen_failed /\ pc'[t] # "s_gen"

\* C21: the durable upsert, the index append with its map update, and the
\* index search of a call happen only while the manager is initialized, and
\* only in a call whose own _ensure_initialized returned with it initialized.
C21_Step ==
    \A t \in Tasks :
        (Upserts(t) \/ Appends(t) \/ Searches(t)) =>
            /\ initialized /\ model /\ faiss_index.created
            /\ ~hist[t].not_ready /\ hist[t].dispatched
            /\ ~(hist[t].ran_bootstrap /\ hist[t].boot_failed)

C21_BootstrapGates == [][C21_Step]_vars

C21_Witness ==
    /\ \E t \in Tasks : op[t] = "add" /\ hist[t].ran_bootstrap /\ hist[t].position # -1
    /\ \E t \in Tasks : op[t] = "search" /\ hist[t].waited /\ Answered(t) /\ results[t] # <<>>

\* C22: an entry created through create_entry while the embedding capability
\* is available, with no step failing, has a stored embedding and an index
\* position when the tool answers, whether or not the manager had been
\* bootstrapped when the write arrived.
C22_IngestOnWrite ==
    \A t \in Tasks :
        (Returned(t, "create") /\ hist[t].committed /\ VECTOR_SEARCH_AVAILABLE /\ faults = 0) =>
            /\ entry_id[t] \in StoredIds
            /\ entry_id[t] \in MappedIds

\* C23: the index and the position map change only in a turn of the event
\* loop (the bootstrap's turn after the model was loaded, or the last turn of
\* add_entry_embedding); the job of a worker thread leaves them as they are;
\* and the turn that appends a vector maps its position in the same step.
C23_Step ==
    /\ \A t \in Tasks : Upserts(t) => UNCHANGED <<faiss_index, entry_id_map, model, initialized>>
    /\ (faiss_index' # faiss_index \/ entry_id_map' # entry_id_map) =>
           \E t \in Tasks :
               \/ pc[t] = "e_load" /\ pc'[t] # "e_load" /\ lock_holder = t
               \/ /\ pc[t] = "a_stored" /\ pc'[t] = "idle" /\ stored[t] = "ok"
                  /\ faiss_index'.vectors =
                         Append(faiss_index.vectors, normalize_L2(encode(content[t])))
                  /\ entry_id_map' = dict_set(entry_id_map, ntotal(faiss_index), entry_id[t])
    /\ initialized' => DOMAIN entry_id_map' = 0..(ntotal(faiss_index') - 1)

C23_LoopConfined == [][C23_Step]_vars

C23_Witness ==
    \E t, u \in Tasks :
        /\ t # u
        /\ pc[t] = "a_stored" /\ stored[t] = "ok" /\ hist[t].upserted
        /\ hist[u].position = ntotal(faiss_index) - 1 /\ hist[u].upserted
        /\ hist[u].ran_bootstrap

\* C24: no call does blocking work in a turn of the event loop: model
\* loading, embedding generation and all database I/O, the bulk load of the
\* stored embeddings at bootstrap included, run as jobs of the worker pool.
C24_LoopNeverBlocks ==
    \A t \in Tasks : ~hist[t].loop_io

\* C25: positions follow the order in which the calls complete, not the
\* order in which they were made: a call is given its position in its last
\* turn, after its own encode and store jobs are done, and that position is
\* above the position of every call that completed before it, whichever of
\* them was called first.
C25_Step ==
    \A t \in Tasks :
        (hist'[t].position # hist[t].position /\ hist'[t].position # -1) =>
            /\ pc[t] = "a_stored" /\ stored[t] = "ok" /\ hist[t].upserted
            /\ \A u \in Tasks \ {t} :
                   /\ hist[u].position < hist'[t].position
                   /\ hist'[u].position = hist[u].position
            /\ \A p \in DOMAIN entry_id_map : p < hist'[t].position

C25_CompletionOrder == [][C25_Step]_vars

\* Task 1 made its call first; the store job of task 2 was done first (its
\* row has the smaller rowid), and task 2 has the smaller position.
C25_Witness ==
    /\ ops = 2 /\ op[1] = "add" /\ op[2] = "add"
    /\ hist[1].ran_bootstrap /\ hist[2].waited
    /\ entry_id[1] # entry_id[2]
    /\ \E r, x \in ActiveRows :
           r.entry_id = entry_id[1] /\ x.entry_id = entry_id[2] /\ x.rowid < r.rowid
    /\ hist[2].position # -1
    /\ hist[2].position < hist[1].position

\* --------------------------------------------------- claims on cancellation
Cancelled(t) == op[t] = "add" /\ result[t] = "cancelled"
Row(job) == EmbeddingRow(job.entry_id, VECTOR_SEARCH_MODEL, pickle_dumps(encode(job.content)))

\* C26 as stated: a cancelled add_entry_embedding call stays pending, so that
\* its last turn, which appends to the index and extends the map, can still
\* run on a later turn of the loop.
C26_AbandonedStep ==
    \A t \in Tasks : (InAdd(t) /\ ~Cancelled(t) /\ Cancelled(t)') => InAdd(t)'

C26_Step ==
    /\ \A t \in Tasks : (~Cancelled(t) /\ Cancelled(t)') =>
           /\ UNCHANGED <<embeddings, faiss_index, entry_id_map>>
           /\ pc'[t] = "idle"
           /\ pool \subseteq pool'
    /\ \A job \in pool : job \notin pool' =>
           /\ \E r \in embeddings' : /\ r.entry_id = job.entry_id
                                       /\ r.embedding_vector = Row(job).embedding_vector
                                       /\ r.rowid = next_rowid(embeddings)
           /\ UNCHANGED <<faiss_index, entry_id_map>>
    /\ \A t \in Tasks : Cancelled(t)' => hist'[t].position = -1
    /\ (initialized /\ (faiss_index' # faiss_index \/ entry_id_map' # entry_id_map)) =>
           \E t \in Tasks : pc[t] = "a_stored" /\ ~Cancelled(t) /\ result'[t] = "true"

C27_Terminates ==
    /\ [](\A t \in Tasks : lock_holder = t => pc[t] = "e_load")
    /\ [](\A i \in 1..Len(lock_waiters) : lock_waiters[i] # lock_holder)
    /\ \A t \in Tasks : InEnsure(t) ~> ~InEnsure(t)

\* A call waited for the lock behind a bootstrap that raised, and has ended.
C27_Witness ==
    \E t, u \in Tasks :
        /\ t # u
        /\ hist[u].boot_failed /\ pc[u] = "idle"
        /\ hist[t].waited /\ op[t] = "ensure" /\ pc[t] = "idle"
        /\ result[t] \in {"returned", "raised"}
        /\ lock_holder = NoTask /\ lock_waiters = <<>>

\* ------------------------------------------------- claims on failed calls
Failed(t) == Returned(t, "add") /\ result[t] = "false"

\* C28 as stated: when add_entry_embedding returns False, no step of the
\* call has changed the vectors of the index or the position map.
C28_FailedUntouched ==
    \A t \in Tasks : Failed(t) => ~hist[t].touched

\* C28, amended: a call that returns False has changed the vectors and the
\* map at most by the bootstrap it ran itself: it has no position, the turns
\* after its _ensure_initialized leave the index and the map as they were,
\* and a turn of add_entry_embedding that changes them returns True.
C28_Step ==
    /\ \A t \in Tasks : (Failed(t)' /\ (pc[t] # "idle" \/ ~Failed(t))) =>
           /\ hist'[t].position = -1
           /\ hist'[t].touched => (hist'[t].ran_bootstrap /\ ~hist'[t].boot_failed)
           /\ pc[t] \in {"idle", "a_gen", "a_stored"} => UNCHANGED <<faiss_index, entry_id_map>>
    /\ \A t \in Tasks :
           (InAdd(t) /\ pc'[t] # pc[t]
               /\ (faiss_index' # faiss_index \/ entry_id_map' # entry_id_map))
                   => (result'[t] = "true" /\ pc'[t] = "idle")

C28_FailedKeepsIndex == [][C28_Step]_vars

\* A call bootstrapped the manager over stored rows and then failed.
C28_Witness ==
    \E t \in Tasks :
        /\ Failed(t) /\ hist[t].touched /\ hist[t].ran_bootstrap
        /\ hist[t].gen_failed \/ hist[t].store_failed \/ hist[t].append_failed
        /\ ntotal(faiss_index) >= 1

\* C29: the list returned by semantic_search names no entry id twice, also
\* after add_entry_embedding was called again for an indexed entry.
C29_NoDuplicateIds ==
    \A t \in Tasks : Searched(t) =>
        \A i, j \in 1..Len(results[t]) : i # j => results[t][i][1] # results[t][j][1]

\* --------------------------------------------------- claims on deletion
\* The answer of the semantic_search tool is written in this step.
Lists(t) == pc[t] = "s_fetch" /\ pc'[t] = "idle" /\ result'[t] = "results"

\* C30: an entry deleted through delete_entry, softly or permanently, is not
\* listed in the answer of a semantic_search tool call made afterwards: the
\* entries listed have a row in memory_journal, and its deleted_at was not
\* set when the call was made.
C30_Step ==
    \A t \in Tasks : Lists(t) =>
        \A i \in 1..Len(listed'[t]) :
            /\ listed'[t][i] \in DOMAIN memory_journal
            /\ listed'[t][i] \notin hist[t].gone

C30_DeletedNotListed == [][C30_Step]_vars

====
